---- MODULE Spec2Model ----
(***************************************************************************)
(* Firefighter monitoring device: the latching firmware sketch             *)
(* (firmware/firefighter_monitor.ino, second sketch, lines 208-517) and    *)
(* the web dashboard's live listener (web-dashboard/src/app/page.tsx).     *)
(*                                                                         *)
(* Units.  Times are milliseconds (millis() on the device, Date.getTime()  *)
(* on the dashboard).  Temperatures are tenths of a degree Celsius, so the *)
(* source's `temperature > 50` reads `temp > 500`.  An acceleration        *)
(* magnitude is the value of the float in units of 10^-8 g, so             *)
(* `movement < 0.03` reads `movement < 3000000`; it is published with two  *)
(* decimals, in hundredths of g.  Positions are millionths of a degree.    *)
(*                                                                         *)
(* millis() is an unsigned 32-bit counter that wraps after 49.7 days; the  *)
(* model's runs end long before that (MaxMillis), so the unsigned          *)
(* subtractions of the source are plain subtractions here.                 *)
(***************************************************************************)
EXTENDS Integers, Sequences, FiniteSets, TLC

\* ------------------------------------------------------------------------
\* Bounds of the model (not program constants)
\* ------------------------------------------------------------------------
\* last device time (ms) at which an evaluation tick may start
MaxMillis == 19500
\* last device time (ms) at which a tick may start in the debounce runs
MaxLatchMillis == 2600
\* last dashboard wall-clock time (ms)
MaxWall == 15000
\* most envelopes the dashboard processes in one run
MaxEnvelopes == 3

\* ------------------------------------------------------------------------
\* Program constants
\* ------------------------------------------------------------------------
DEBOUNCE_MS == 200
\* 1.0 in `abs(totalAcc - 1.0)`, in units of 10^-8 g
ONE_G == 100000000
\* `movement < 0.03`, in units of 10^-8 g
MOVE_THRESHOLD == 3000000
\* `noMoveDuration >= 5`, seconds
WARN_SECONDS == 5
\* `noMoveDuration >= 15`, seconds
EMERGENCY_SECONDS == 15
\* `temperature > 50`, in tenths of a degree
TEMP_CRITICAL == 500
\* `temperature > 40.0` of the first sketch, in tenths of a degree
TEMP_WARNING == 400
\* `sendInterval = 3000` of the first sketch
PUBLISH_INTERVAL_MS == 3000
\* `temperature = -999`, in tenths of a degree
TEMP_INVALID == -9990
\* `millis() - buzzerTimer >= 1000`
BUZZER_PERIOD_MS == 1000
\* `delay(2000)` at the end of setup(): millis() when loop() first runs
SETUP_DELAY_MS == 2000
\* `lastHeartbeat ... < 10000`
LIVENESS_MS == 10000

HIGH == TRUE
LOW == FALSE

\* dht.readTemperature(): a float, NaN when the probe read fails; v is in
\* tenths of a degree
NaN == [nan |-> TRUE, v |-> 0]
Deg(v) == [nan |-> FALSE, v |-> v]
\* no PUT has been attempted yet / no snapshot data
NoEnvelope == [status |-> "none"]

VARIABLES
  \* ---- device (latching sketch) ----
  now,                \* value millis() returned in the latest tick
  totalAcc,           \* float totalAcc (its value in units of 10^-8 g)
  noMoveStartTime, notMoving, movementStatus,
  buzzerTimer, buzzerState, buzzerPin,
  deviceState, mpuStatus, dhtStatus, gpsStatus, systemStatus,
  sosActive, sosDeactivateCount, lastButtonState, lastDebounceTime,
  risingEdge,         \* the condition of line 453 in the latest tick
  buttonJustPressed,  \* the local of line 450 at the end of the latest tick
  sent,               \* jsonData of the latest https.PUT attempt
  linkState,          \* what sendToFirebase met in the latest tick
  tapInPut,           \* the button was pressed and released during the PUT
  \* ---- dashboard (page.tsx) ----
  wall,               \* new Date().getTime()
  rtdbData,           \* snap.val() of the latest snapshot the listener got
  deviceData, lastHeartbeat, useMock,
  alerts, trail, tempHistory, movementHistory, statusCounts,
  lastStatus,         \* closure variable of the live effect (line 208)
  lastAnnouncedStatus,\* lastAnnouncedStatus.current
  resetTimers,        \* due times of the pending setTimeout resets (158),
                      \* one entry per timer, in the order they were armed
  spoken,             \* the latest utterance given to speechSynthesis.speak
  mockDue,            \* next firing time of the simulation interval
  mockLat, mockLng,   \* closure variables of the simulation effect (176-177)
  displayStatus,      \* displayStatus as computed by the latest render
  \* ingress route
  adminDb,            \* the export of firebaseAdmin.ts
  readings,           \* the Firestore collection readings, oldest first
  devices,            \* the Firestore collection devices, by document id
  calls,              \* the invocations of POST, in the order of arrival
  serverTime          \* FieldValue.serverTimestamp(): writes committed so far

devVars == <<now, totalAcc, noMoveStartTime, notMoving, movementStatus,
             buzzerTimer, buzzerState, buzzerPin,
             deviceState, mpuStatus, dhtStatus, gpsStatus, systemStatus,
             sosActive, sosDeactivateCount, lastButtonState, lastDebounceTime,
             risingEdge, buttonJustPressed, sent, linkState, tapInPut>>
dashVars == <<wall, rtdbData, deviceData, lastHeartbeat, useMock,
              alerts, trail, tempHistory, movementHistory, statusCounts,
              lastStatus, lastAnnouncedStatus, resetTimers, spoken, mockDue,
              mockLat, mockLng, displayStatus>>
apiVars == <<adminDb, readings, devices, calls, serverTime>>
vars == <<devVars, dashVars, apiVars>>

Abs(x) == IF x < 0 THEN -x ELSE x

\* ------------------------------------------------------------------------
\* Device: state after setup() (globals at lines 237-262, setup 310-343)
\* ------------------------------------------------------------------------
DevInit ==
  /\ now = SETUP_DELAY_MS
  /\ totalAcc = 0
  /\ noMoveStartTime = 0
  /\ notMoving = FALSE
  /\ movementStatus = [kind |-> "MOVING", sec |-> 0]
  /\ buzzerTimer = 0
  /\ buzzerState = FALSE
  /\ buzzerPin = LOW
  /\ deviceState = "STARTUP"
  /\ mpuStatus = "OK"
  /\ dhtStatus = "OK"
  /\ gpsStatus = "OK"
  /\ systemStatus = "OK"
  /\ sosActive = FALSE
  /\ sosDeactivateCount = 0
  /\ lastButtonState = HIGH
  /\ lastDebounceTime = 0
  /\ risingEdge = FALSE
  /\ buttonJustPressed = FALSE
  /\ sent = NoEnvelope
  /\ linkState = "none"
  /\ tapInPut = FALSE

\* MOVEMENT LOGIC, lines 381-397: the motion timer.  acc is totalAcc after
\* the MPU section, t the value of millis().  totalAcc is a 32-bit float and
\* acc is that float's value in units of 10^-8 g, rounded down.  For a float
\* between 0.5 and 2 the difference `totalAcc - 1.0` is exact, and no float
\* lies within 10^-8 of 0.97 or 1.03, so the comparison of the integers is the
\* comparison the sketch makes: 1.03f = 1.02999997 is still, the next float
\* but 246 (1.0300293, raw reading 16876) is moving.
StillNow(acc) == Abs(acc - ONE_G) < MOVE_THRESHOLD

NoMoveStart(acc, t) ==
  IF StillNow(acc) /\ ~notMoving THEN t ELSE noMoveStartTime

NoMoveDuration(acc, t) ==
  IF StillNow(acc) THEN (t - NoMoveStart(acc, t)) \div 1000 ELSE 0

\* MotionState with the warning window opening one second late
MotionState_LateWarning(acc, t) ==
  LET d == NoMoveDuration(acc, t) IN
  IF ~StillNow(acc) THEN "NORMAL"
  ELSE IF d > WARN_SECONDS /\ d < EMERGENCY_SECONDS THEN "WARNING"
  ELSE IF d >= EMERGENCY_SECONDS THEN "EMERGENCY"
  ELSE "NORMAL"

\* MotionState that starts from the state of the tick before
MotionState_Sticky(acc, t) ==
  LET d == NoMoveDuration(acc, t) IN
  IF ~StillNow(acc) THEN deviceState
  ELSE IF d >= WARN_SECONDS /\ d < EMERGENCY_SECONDS THEN "WARNING"
  ELSE IF d >= EMERGENCY_SECONDS THEN "EMERGENCY"
  ELSE deviceState

\* lines 399-409: the motion rule's state (deviceState was reset to NORMAL
\* at line 348)
MotionState(acc, t) ==
  LET d == NoMoveDuration(acc, t) IN
  IF ~StillNow(acc) THEN "NORMAL"
  ELSE IF d >= WARN_SECONDS /\ d < EMERGENCY_SECONDS THEN "WARNING"
  ELSE IF d >= EMERGENCY_SECONDS THEN "EMERGENCY"
  ELSE "NORMAL"

\* lines 399-409: movementStatus (left as it was while still for < 5 s)
MovementStatus(acc, t) ==
  LET d == NoMoveDuration(acc, t) IN
  IF ~StillNow(acc) THEN [kind |-> "MOVING", sec |-> 0]
  ELSE IF d >= WARN_SECONDS /\ d < EMERGENCY_SECONDS
         THEN [kind |-> "NOT MOVING", sec |-> d]
  ELSE IF d >= EMERGENCY_SECONDS
         THEN [kind |-> "NOT MOVING LONG TIME", sec |-> d]
  ELSE movementStatus

\* lines 412-418: the temperature the rest of the tick works with
Temperature(reading) == IF reading.nan THEN TEMP_INVALID ELSE reading.v

\* TempState with the threshold one degree high
TempState_HighThreshold(st, reading) ==
  IF Temperature(reading) > TEMP_CRITICAL + 10
    THEN "EMERGENCY (HIGH TEMP)" ELSE st

\* TempState with a failed read taken for a critical temperature
TempState_NaNCritical(st, reading) ==
  IF reading.nan \/ Temperature(reading) > TEMP_CRITICAL
    THEN "EMERGENCY (HIGH TEMP)" ELSE st

\* TempState that overwrites the motion rule's state in either case
TempState_Lowers(st, reading) ==
  IF Temperature(reading) > TEMP_CRITICAL THEN "EMERGENCY (HIGH TEMP)"
  ELSE "NORMAL"

\* lines 423-425: the temperature rule applied to the motion rule's state
TempState(st, reading) ==
  IF Temperature(reading) > TEMP_CRITICAL THEN "EMERGENCY (HIGH TEMP)" ELSE st

\* RisingEdge raised by the press instead of the release
RisingEdge_OnPress(btn) == btn = LOW /\ lastButtonState = HIGH

\* line 453: the button reads released after having read pressed
RisingEdge(btn) == btn = HIGH /\ lastButtonState = LOW

\* ButtonJustPressed without the debounce window
ButtonJustPressed_NoDebounce(btn, t) ==
  /\ btn = HIGH
  /\ lastButtonState = LOW

\* lines 449-459: a release edge outside the debounce window
ButtonJustPressed(btn, t) ==
  /\ RisingEdge(btn)
  /\ t - lastDebounceTime >= DEBOUNCE_MS

\* LatchStep that leaves the counter at 2 when it cancels
LatchStep_KeepsCount(active, count) ==
  IF ~active THEN <<TRUE, 0>>
  ELSE IF count + 1 >= 2 THEN <<FALSE, count + 1>>
  ELSE <<TRUE, count + 1>>

\* LatchStep cancelling on the first press
LatchStep_OnePress(active, count) ==
  IF ~active THEN <<TRUE, 0>>
  ELSE IF count + 1 >= 1 THEN <<FALSE, 0>>
  ELSE <<TRUE, count + 1>>

\* lines 462-480: the latch after an accepted edge, as <<sosActive, count>>
LatchStep(active, count) ==
  IF ~active THEN <<TRUE, 0>>
  ELSE IF count + 1 >= 2 THEN <<FALSE, 0>>
  ELSE <<TRUE, count + 1>>

\* SosState that lets a high-temperature emergency stand
SosState_TempWins(st, active) ==
  IF active /\ st # "EMERGENCY (HIGH TEMP)" THEN "SOS" ELSE st

\* lines 482-484
SosState(st, active) == IF active THEN "SOS" ELSE st

\* line 284, `String(totalAcc)`: the magnitude printed with two decimals;
\* the result is in hundredths of g.  String(float) adds 0.005 and cuts the
\* digits off one by one, in double arithmetic.  For a float that is not
\* half-way between two hundredths this is the nearest hundredth.  A float
\* is half-way only when it is an odd multiple of 1/8: then the sum falls
\* on the double next to the upper hundredth and the digits come out as the
\* lower hundredth (1.125 prints 1.12), except at 0.125 and 0.875, which
\* print 0.13 and 0.88.  The magnitude of three 16-bit readings is below
\* 3.47 g.
ACC_TIES_UP == {12500000, 87500000}
TotalAccString(acc) ==
  IF acc % 25000000 = 12500000 /\ acc \notin ACC_TIES_UP
    THEN acc \div 1000000
    ELSE (acc + 500000) \div 1000000

\* lines 282-295: the JSON document handed to https.PUT
JsonData(reading, acc, mov, st, mpu, dht, gps, sys, active, lat, lng, t) ==
  [temperature |-> Temperature(reading), total_acc |-> TotalAccString(acc),
   movement |-> mov, status |-> st,
   mpu_status |-> mpu, dht_status |-> dht, gps_status |-> gps,
   system_status |-> sys, sos_active |-> active,
   latitude |-> lat, longitude |-> lng, timestamp |-> t]

\* BuzzerToggle without the one-second period
BuzzerToggle_NoPeriod(st, t) == st = "WARNING"

\* lines 490-491: the WARNING branch toggles the buzzer
BuzzerToggle(st, t) ==
  st = "WARNING" /\ t - buzzerTimer >= BUZZER_PERIOD_MS

\* lines 486-499: the level of the BUZZER pin after the buzzer section
BuzzerLevel(st, t) ==
  IF st = "NORMAL" THEN LOW
  ELSE IF st = "WARNING"
         THEN (IF BuzzerToggle(st, t) THEN ~buzzerState ELSE buzzerPin)
  ELSE HIGH

\* Published that sends although Wi-Fi is not connected
Published_IgnoresWifi(link, doc) ==
  IF link \in {"up", "down"} THEN doc ELSE sent

\* lines 265-308, sendToFirebase: the document of the latest PUT attempt
Published(link, doc) == IF link = "up" THEN doc ELSE sent

\* One iteration of loop(), lines 345-517.
\*   dt      time since the previous iteration read millis()
\*   mpuOk   the I2C read of the accelerometer delivered 6 bytes
\*   acc     the magnitude computed from them (float, units of 10^-8 g)
\*   reading dht.readTemperature(): tenths of a degree, or NaN
\*   fix     gps.location.isValid(), with the position <<lat, lng>>
\*   btn     digitalRead(SOS_BUTTON)
\*   link    "down": WiFi.status() # WL_CONNECTED; "nobegin": https.begin
\*           failed; "up": the PUT is attempted
DeviceTick(dt, mpuOk, acc, reading, fix, btn, link) ==
  LET t      == now + dt
      acc1   == IF mpuOk THEN acc ELSE totalAcc
      mpu1   == IF mpuOk THEN "OK" ELSE "ERROR"
      dht1   == IF reading.nan THEN "ERROR" ELSE "OK"
      sys1   == IF mpuOk /\ ~reading.nan THEN "OK" ELSE "SENSOR_FAILURE"
      gps1   == IF fix.valid THEN "OK" ELSE "NO_SIGNAL"
      lat    == IF fix.valid THEN fix.lat ELSE 0
      lng    == IF fix.valid THEN fix.lng ELSE 0
      mov1   == MovementStatus(acc1, t)
      st1    == TempState(MotionState(acc1, t), reading)
      edge   == ButtonJustPressed(btn, t)
      latch  == IF edge THEN LatchStep(sosActive, sosDeactivateCount)
                ELSE <<sosActive, sosDeactivateCount>>
      st2    == SosState(st1, latch[1])
      toggle == BuzzerToggle(st2, t)
  IN
  /\ now' = t
  /\ totalAcc' = acc1
  /\ mpuStatus' = mpu1
  /\ notMoving' = StillNow(acc1)
  /\ noMoveStartTime' = NoMoveStart(acc1, t)
  /\ movementStatus' = mov1
  /\ dhtStatus' = dht1
  /\ systemStatus' = sys1
  /\ gpsStatus' = gps1
  /\ lastDebounceTime' = IF edge THEN t ELSE lastDebounceTime
  /\ lastButtonState' = btn
  /\ risingEdge' = RisingEdge(btn)
  /\ buttonJustPressed' = edge
  /\ sosActive' = latch[1]
  /\ sosDeactivateCount' = latch[2]
  /\ deviceState' = st2
  /\ buzzerTimer' = IF toggle THEN t ELSE buzzerTimer
  /\ buzzerState' = IF toggle THEN ~buzzerState ELSE buzzerState
  /\ buzzerPin' = BuzzerLevel(st2, t)
  /\ sent' = Published(link,
                       JsonData(reading, acc1, mov1, st2, mpu1, dht1, gps1,
                                sys1, latch[1], lat, lng, t))
  /\ linkState' = link
  /\ tapInPut' = FALSE

\* loop() running while the dashboard does nothing
Loop(dt, mpuOk, acc, reading, fix, btn, link) ==
  /\ DeviceTick(dt, mpuOk, acc, reading, fix, btn, link)
  /\ UNCHANGED <<dashVars, apiVars>>

\* The wearer presses and releases the SOS button while the https.PUT of
\* the latest iteration (line 297) is in progress: the pin goes LOW and
\* back HIGH between two executions of line 449.
Tap ==
  /\ linkState = "up"
  /\ lastButtonState = HIGH
  /\ ~tapInPut
  /\ tapInPut' = TRUE
  /\ UNCHANGED <<now, totalAcc, noMoveStartTime, notMoving, movementStatus,
                 buzzerTimer, buzzerState, buzzerPin, deviceState, mpuStatus,
                 dhtStatus, gpsStatus, systemStatus, sosActive,
                 sosDeactivateCount, lastButtonState, lastDebounceTime,
                 risingEdge, buttonJustPressed, sent, linkState>>
  /\ UNCHANGED <<dashVars, apiVars>>

\* ------------------------------------------------------------------------
\* Dashboard (page.tsx).  The presentation-only fields of DeviceData
\* (battery, signal, packetLoss, latency), the time labels of the history
\* entries and the ids of the alert entries are left out.  Latitudes and
\* longitudes are millionths of a degree.  The browser is taken to offer
\* speechSynthesis.
\* ------------------------------------------------------------------------
\* lastHeartbeat = null
NoHeartbeat == -1
\* deviceData = null
NoData == [status |-> "none"]
\* no interval is running
NoMock == -1
\* `setInterval(..., 3000)` of the simulation loop
MOCK_PERIOD_MS == 3000
\* `setTimeout(..., 10000)` of announceStatus
ANNOUNCE_RESET_MS == 10000
\* `let mockLat = 16.508908144342104`, in millionths of a degree
MOCK_LAT == 16508908
\* `let mockLng = 80.65868082784321`, in millionths of a degree
MOCK_LNG == 80658681
\* `Math.abs(...) > 0.0001`, in millionths of a degree
TRAIL_MIN_MOVE == 100

Max(a, b) == IF a > b THEN a ELSE b
Min(a, b) == IF a < b THEN a ELSE b

\* Array.prototype.slice(-n) for n > 0, and slice(0, n)
SliceLast(s, n) == SubSeq(s, Max(1, Len(s) - n + 1), Len(s))
SliceFirst(s, n) == SubSeq(s, 1, Min(n, Len(s)))

\* the state-count rows of lines 121-126
InitCounts == [n \in {"Normal", "Warning", "Emergency", "SOS"} |-> 0]

\* the characters of the status strings of the sketch (lines 251, 348,
\* 406, 424, 483) and of the words the listener looks for
Chars(str) ==
  CASE str = "NORMAL" -> <<"N", "O", "R", "M", "A", "L">>
    [] str = "WARNING" -> <<"W", "A", "R", "N", "I", "N", "G">>
    [] str = "EMERGENCY" -> <<"E", "M", "E", "R", "G", "E", "N", "C", "Y">>
    [] str = "EMERGENCY (HIGH TEMP)" ->
         <<"E", "M", "E", "R", "G", "E", "N", "C", "Y", " ", "(", "H", "I",
           "G", "H", " ", "T", "E", "M", "P", ")">>
    [] str = "SOS" -> <<"S", "O", "S">>
    [] str = "STARTUP" -> <<"S", "T", "A", "R", "T", "U", "P">>
    [] OTHER -> <<>>

\* String.prototype.includes: word occurs in str at some position
Includes(str, word) ==
  LET s == Chars(str)
      w == Chars(word)
  IN \E i \in 0..(Len(s) - Len(w)) : SubSeq(s, i + 1, i + Len(w)) = w

\* MappedStatus that compares whole strings
MappedStatus_WholeString(str) ==
  IF str = "EMERGENCY" THEN "EMERGENCY"
  ELSE IF str = "WARNING" THEN "WARNING"
  ELSE IF str = "SOS" THEN "SOS"
  ELSE "NORMAL"

\* MappedStatus without the SOS branch
MappedStatus_NoSos(str) ==
  IF Includes(str, "EMERGENCY") THEN "EMERGENCY"
  ELSE IF Includes(str, "WARNING") THEN "WARNING"
  ELSE "NORMAL"

\* lines 214-219
MappedStatus(str) ==
  IF Includes(str, "EMERGENCY") THEN "EMERGENCY"
  ELSE IF Includes(str, "WARNING") THEN "WARNING"
  ELSE IF Includes(str, "SOS") THEN "SOS"
  ELSE "NORMAL"

\* lines 221-235
LiveData(d) ==
  [status |-> MappedStatus(d.status),
   temperature |-> d.temperature,
   movement |-> IF d.movement.kind = "MOVING" THEN "MOVING" ELSE "STILL",
   lat |-> d.latitude, lng |-> d.longitude]

\* PushWindow that keeps the last 60 before appending
PushWindow_Keeps60(prev, x) == Append(SliceLast(prev, 60), x)

\* lines 128-140, pushAnalytics: the three state updates
PushWindow(prev, x) == Append(SliceLast(prev, 59), x)

\* CountStatus without the SOS row
CountStatus_NoSos(counts, status) ==
  [n \in DOMAIN counts |->
     IF \/ (n = "Normal" /\ status = "NORMAL")
        \/ (n = "Warning" /\ status = "WARNING")
        \/ (n = "Emergency" /\ status = "EMERGENCY")
       THEN counts[n] + 1 ELSE counts[n]]

\* lines 132-139: setStatusCounts
CountStatus(counts, status) ==
  [n \in DOMAIN counts |->
     IF \/ (n = "Normal" /\ status = "NORMAL")
        \/ (n = "Warning" /\ status = "WARNING")
        \/ (n = "Emergency" /\ status = "EMERGENCY")
        \/ (n = "SOS" /\ status = "SOS")
       THEN counts[n] + 1 ELSE counts[n]]

\* lines 144-160, announceStatus: whether the call speaks
Speaks(status) ==
  /\ status \notin {"", "NORMAL", "OFFLINE"}
  /\ lastAnnouncedStatus # status

\* ---- lines 244-245, `Math.abs(last[0] - lat) > 0.0001` on doubles ----
\* Positions are kept in millionths of a degree; the page holds each as the
\* double nearest to v / 10^6, which is M / 2^s for an integer M of 53 bits.
\* DoubleScale(v) is that s, for v > 0.
RECURSIVE BinadeUp(_, _, _)
BinadeUp(x, v, e) == IF 2 * x <= v THEN BinadeUp(2 * x, v, e + 1) ELSE e

RECURSIVE BinadeDown(_, _)
BinadeDown(x, e) == IF x < 1000000 THEN BinadeDown(2 * x, e - 1) ELSE e

DoubleScale(v) ==
  52 - (IF v >= 1000000 THEN BinadeUp(1000000, v, 0) ELSE BinadeDown(v, 0))

RECURSIVE Pow2(_)
Pow2(n) == IF n = 0 THEN 1 ELSE 2 * Pow2(n - 1)

\* x * 2^n modulo 10^6
RECURSIVE ShiftMod(_, _)
ShiftMod(x, n) == IF n = 0 THEN x ELSE ShiftMod((2 * x) % 1000000, n - 1)

\* 10^6 * 2^s times the rounding error of the double nearest to v / 10^6:
\* minus the remainder of v * 2^s by 10^6 taken nearest to zero (a tie does
\* not occur, 2^s being a multiple of 2^6), with the sign of v
DoubleErr(v, s) ==
  IF v = 0 THEN 0
  ELSE LET x == ShiftMod(Abs(v) % 1000000, s)
           r == IF x <= 500000 THEN x ELSE x - 1000000
       IN IF v > 0 THEN -r ELSE r

\* The literal 0.0001 is the double m / 2^66 with m = 7378697629483821, an
\* odd number, and 10^4 * m - 2^66 = 3536.  With d the exact difference of
\* the two doubles, the subtraction rounds d to a multiple of 2^-66 and the
\* result exceeds 0.0001 when d > 0.0001 + 3536 / (10^4 * 2^66) + 2^-67, or
\* when the two are equal (the tie rounds to the even neighbour, upwards).
\* MIN_MOVE_EXCESS is 10^6 * 2^67 times the two last terms.
MIN_MOVE_EXCESS == 200 * 3536 + 1000000

\* `Math.abs(a - b) > 0.0001` for the doubles of p and q millionths.  More
\* or less than 100 millionths apart, the rounding errors (below 10^-13) do
\* not matter; at exactly 100 they decide.
FarApart(p, q) ==
  IF Abs(p - q) # TRAIL_MIN_MOVE THEN Abs(p - q) > TRAIL_MIN_MOVE
  ELSE LET hi == Max(p, q)
           lo == Min(p, q)
           sHi == IF hi = 0 THEN DoubleScale(Abs(lo))
                  ELSE DoubleScale(Abs(hi))
           sLo == IF lo = 0 THEN sHi ELSE DoubleScale(Abs(lo))
           s1 == Max(sHi, sLo)
           z == DoubleErr(hi, sHi) * Pow2(s1 - sHi)
                - DoubleErr(lo, sLo) * Pow2(s1 - sLo)
       IN IF s1 <= 67
            THEN \/ z > MIN_MOVE_EXCESS \div Pow2(67 - s1)
                 \/ /\ MIN_MOVE_EXCESS % Pow2(67 - s1) = 0
                    /\ z = MIN_MOVE_EXCESS \div Pow2(67 - s1)
            ELSE z >= MIN_MOVE_EXCESS * Pow2(s1 - 67)

\* lines 242-249: the trail after a live position
LiveTrail(prev, lat, lng) ==
  IF lat # 0 \/ lng # 0
    THEN IF \/ Len(prev) = 0
            \/ FarApart(prev[Len(prev)][1], lat)
            \/ FarApart(prev[Len(prev)][2], lng)
           THEN Append(SliceLast(prev, 50), <<lat, lng>>)
           ELSE prev
    ELSE prev

\* LiveAlerts that does not compare with the previous status
LiveAlerts_EveryEnvelope(prev, mapped, raw) ==
  IF mapped \in {"WARNING", "EMERGENCY", "SOS"}
    THEN <<[status |-> mapped,
            message |-> IF mapped = "EMERGENCY"
                          THEN (IF raw = "EMERGENCY (HIGH TEMP)"
                                  THEN "Critical High Temperature"
                                  ELSE "Emergency State Detected")
                          ELSE "Status Change Detected"]>>
         \o SliceFirst(prev, 19)
    ELSE prev

\* lines 252-263: the alert log after a live envelope
LiveAlerts(prev, mapped, raw) ==
  IF mapped # lastStatus /\ mapped \in {"WARNING", "EMERGENCY", "SOS"}
    THEN <<[status |-> mapped,
            message |-> IF mapped = "EMERGENCY"
                          THEN (IF raw = "EMERGENCY (HIGH TEMP)"
                                  THEN "Critical High Temperature"
                                  ELSE "Emergency State Detected")
                          ELSE "Status Change Detected"]>>
         \o SliceFirst(prev, 19)
    ELSE prev

\* DisplayStatus with the liveness comparison the wrong way round
DisplayStatus_Inverted(mock, hb, data, t) ==
  LET isOnline == hb # NoHeartbeat /\ t - hb >= LIVENESS_MS IN
  IF mock THEN (IF data = NoData THEN "NORMAL" ELSE data.status)
  ELSE IF ~isOnline THEN "OFFLINE"
  ELSE IF data = NoData THEN "NORMAL" ELSE data.status

\* lines 270-273: isOnline and displayStatus as a render at time t computes
\* them
DisplayStatus(mock, hb, data, t) ==
  LET isOnline == hb # NoHeartbeat /\ t - hb < LIVENESS_MS IN
  IF mock THEN (IF data = NoData THEN "NORMAL" ELSE data.status)
  ELSE IF ~isOnline THEN "OFFLINE"
  ELSE IF data = NoData THEN "NORMAL" ELSE data.status

\* envelopes processed since the analytics were last reset
Processed ==
  statusCounts["Normal"] + statusCounts["Warning"]
    + statusCounts["Emergency"] + statusCounts["SOS"]

\* State of the first render after mounting in live mode (111-126, 162-173)
DashInit ==
  /\ wall = 0
  /\ rtdbData = NoEnvelope
  /\ deviceData = NoData
  /\ lastHeartbeat = NoHeartbeat
  /\ useMock = FALSE
  /\ alerts = <<>>
  /\ trail = <<>>
  /\ tempHistory = <<>>
  /\ movementHistory = <<>>
  /\ statusCounts = InitCounts
  /\ lastStatus = "NORMAL"
  /\ lastAnnouncedStatus = ""
  /\ resetTimers = <<>>
  /\ spoken = [status |-> "", at |-> 0]
  /\ mockDue = NoMock
  /\ mockLat = NoMock
  /\ mockLng = NoMock
  /\ displayStatus = "OFFLINE"

\* The onValue listener, lines 210-265, called with an existing snapshot
\* whose value is d, and the render that its state updates cause.
OnValue(d) ==
  LET data == LiveData(d)
      mapped == data.status
      speak == Speaks(mapped)
  IN
  /\ ~useMock
  /\ rtdbData' = d
  /\ spoken' = IF speak THEN [status |-> mapped, at |-> wall] ELSE spoken
  /\ lastAnnouncedStatus' = IF speak THEN mapped ELSE lastAnnouncedStatus
  /\ resetTimers' = IF speak THEN Append(resetTimers, wall + ANNOUNCE_RESET_MS)
                    ELSE resetTimers
  /\ deviceData' = data
  /\ tempHistory' = PushWindow(tempHistory, data.temperature)
  /\ movementHistory' =
       PushWindow(movementHistory, IF data.movement = "MOVING" THEN 1 ELSE 0)
  /\ statusCounts' = CountStatus(statusCounts, mapped)
  /\ lastHeartbeat' = wall
  /\ trail' = LiveTrail(trail, data.lat, data.lng)
  /\ alerts' = LiveAlerts(alerts, mapped, d.status)
  /\ lastStatus' = mapped
  /\ displayStatus' = DisplayStatus(useMock, wall, data, wall)
  /\ UNCHANGED <<wall, useMock, mockDue, mockLat, mockLng>>
  /\ UNCHANGED <<devVars, apiVars>>

\* The listener called with a snapshot that does not exist (line 211):
\* nothing is set, nothing renders.
OnValueEmpty ==
  /\ ~useMock
  /\ UNCHANGED vars

\* lines 60-79, generateMockData: Math.random() is the choice of status,
\* temperature, movement and of the move <<dlat, dlng>>
GenerateMockData(prevLat, prevLng, status, temp, movement, move) ==
  [status |-> status, temperature |-> temp, movement |-> movement,
   lat |-> prevLat + move[1], lng |-> prevLng + move[2]]

\* lines 81-87, generateMockAlerts
GenerateMockAlerts ==
  <<[status |-> "EMERGENCY", message |-> "High Temperature Detected"],
    [status |-> "NORMAL", message |-> "Status Normal"],
    [status |-> "WARNING", message |-> "Inactivity Warning"],
    [status |-> "NORMAL", message |-> "Status Normal"],
    [status |-> "NORMAL", message |-> "Status Normal"]>>

\* The simulation button (line 348) while in live mode: the effect's
\* cleanup unsubscribes, the effect (162-204) resets the analytics, sets the
\* first simulated data and starts the interval; then the page renders.
\* mockLat and mockLng (176-177) keep the starting point: initialData is
\* generated from them and they are not advanced (178-182).
StartSimulation(status, temp, movement, move) ==
  LET initialData ==
        GenerateMockData(MOCK_LAT, MOCK_LNG, status, temp, movement, move)
  IN
  /\ ~useMock
  /\ useMock' = TRUE
  /\ trail' = <<<<initialData.lat, initialData.lng>>>>
  /\ tempHistory' = <<>>
  /\ movementHistory' = <<>>
  /\ statusCounts' = InitCounts
  /\ deviceData' = initialData
  /\ alerts' = GenerateMockAlerts
  /\ lastHeartbeat' = wall
  /\ mockDue' = wall + MOCK_PERIOD_MS
  /\ mockLat' = MOCK_LAT
  /\ mockLng' = MOCK_LNG
  /\ displayStatus' = DisplayStatus(TRUE, wall, initialData, wall)
  /\ UNCHANGED <<wall, rtdbData, lastStatus, lastAnnouncedStatus,
                 resetTimers, spoken>>
  /\ UNCHANGED <<devVars, apiVars>>

\* The simulation button while in simulation mode: the cleanup clears the
\* interval, the effect resets the analytics and subscribes the listener
\* with a fresh lastStatus; deviceData, lastHeartbeat and alerts stay.
StopSimulation ==
  /\ useMock
  /\ useMock' = FALSE
  /\ trail' = <<>>
  /\ tempHistory' = <<>>
  /\ movementHistory' = <<>>
  /\ statusCounts' = InitCounts
  /\ mockDue' = NoMock
  /\ mockLat' = NoMock
  /\ mockLng' = NoMock
  /\ lastStatus' = "NORMAL"
  /\ displayStatus' = DisplayStatus(FALSE, lastHeartbeat, deviceData, wall)
  /\ UNCHANGED <<wall, rtdbData, deviceData, alerts, lastHeartbeat,
                 lastAnnouncedStatus, resetTimers, spoken>>
  /\ UNCHANGED <<devVars, apiVars>>

\* One firing of the simulation interval, lines 184-202; pushAlert is
\* `Math.random() > 0.8`.  The new position is generated from the closure
\* variables mockLat and mockLng (185), which are then advanced (186-187).
MockTick(status, temp, movement, move, pushAlert) ==
  LET newData ==
        GenerateMockData(mockLat, mockLng, status, temp, movement, move)
      speak == status # "NORMAL" /\ Speaks(status)
  IN
  /\ useMock
  /\ mockDue = wall
  /\ mockDue' = wall + MOCK_PERIOD_MS
  /\ mockLat' = newData.lat
  /\ mockLng' = newData.lng
  /\ deviceData' = newData
  /\ lastHeartbeat' = wall
  /\ trail' = Append(SliceLast(trail, 50), <<newData.lat, newData.lng>>)
  /\ tempHistory' = PushWindow(tempHistory, temp)
  /\ movementHistory' =
       PushWindow(movementHistory, IF movement = "MOVING" THEN 1 ELSE 0)
  /\ statusCounts' = CountStatus(statusCounts, status)
  /\ spoken' = IF speak THEN [status |-> status, at |-> wall] ELSE spoken
  /\ lastAnnouncedStatus' = IF speak THEN status ELSE lastAnnouncedStatus
  /\ resetTimers' = IF speak THEN Append(resetTimers, wall + ANNOUNCE_RESET_MS)
                    ELSE resetTimers
  /\ alerts' =
       IF pushAlert
         THEN <<[status |-> status,
                 message |-> IF status = "EMERGENCY"
                               THEN "Critical Vitals / Sensor Limit"
                               ELSE "Status Change Detected"]>>
              \o SliceFirst(alerts, 20)
         ELSE alerts
  /\ displayStatus' = DisplayStatus(TRUE, wall, newData, wall)
  /\ UNCHANGED <<wall, rtdbData, useMock, lastStatus>>
  /\ UNCHANGED <<devVars, apiVars>>

\* A reset timer of announceStatus fires (line 158); a ref changes, so
\* nothing renders.  Every announcement arms a timer of its own, and timers
\* fire in the order of their due times, which is the order they were armed.
ResetTimerFires ==
  /\ resetTimers # <<>>
  /\ Head(resetTimers) <= wall
  /\ resetTimers' = Tail(resetTimers)
  /\ lastAnnouncedStatus' = ""
  /\ UNCHANGED <<wall, rtdbData, deviceData, lastHeartbeat, useMock, alerts,
                 trail, tempHistory, movementHistory, statusCounts,
                 lastStatus, spoken, mockDue, mockLat, mockLng,
                 displayStatus>>
  /\ UNCHANGED <<devVars, apiVars>>

\* Wall-clock time passes on the dashboard with no callback running: no
\* state is set, so nothing renders.  Timers fire when they are due.
Elapse(dt) ==
  /\ \A i \in DOMAIN resetTimers : wall + dt <= resetTimers[i]
  /\ mockDue # NoMock => wall + dt <= mockDue
  /\ wall' = wall + dt
  /\ UNCHANGED <<rtdbData, deviceData, lastHeartbeat, useMock, alerts, trail,
                 tempHistory, movementHistory, statusCounts, lastStatus,
                 lastAnnouncedStatus, resetTimers, spoken, mockDue,
                 mockLat, mockLng, displayStatus>>

\* the same while the device does nothing
Pass(dt) ==
  /\ Elapse(dt)
  /\ UNCHANGED <<devVars, apiVars>>

\* ------------------------------------------------------------------------
\* Ingress route: POST /api/data and the Firestore handle it imports
\* ------------------------------------------------------------------------
NoDoc == [device_id |-> ""]
NoResponse == [status |-> 0]
DeviceIds == {"FF_001", "FF_002"}

\* State before firebaseAdmin.ts is loaded and before any request
ApiInit ==
  /\ adminDb = "unloaded"
  /\ readings = <<>>
  /\ devices = [id \in DeviceIds |-> NoDoc]
  /\ calls = <<>>
  /\ serverTime = 0

\* firebaseAdmin.ts, lines 3-28: the module body, run once at import.
\* envOk: the three environment variables are set; certOk: initializeApp
\* accepts the credential (it throws otherwise, caught at line 24).
LoadFirebaseAdmin(envOk, certOk) ==
  /\ adminDb = "unloaded"
  /\ adminDb' = IF envOk /\ certOk THEN "firestore" ELSE "null"
  /\ UNCHANGED <<readings, devices, calls, serverTime>>
  /\ UNCHANGED <<devVars, dashVars>>

\* lines 19-29 of the route: the stored fields of a parsed body
PostData(body) ==
  [device_id |-> body.device_id, temperature |-> body.temperature,
   movement |-> body.movement, status |-> body.status,
   lat |-> body.latitude, lng |-> body.longitude]

\* lines 9, 16, 43, 46: the JSON of the response
PostBody(code) ==
  CASE code = 200 -> [success |-> TRUE, error |-> ""]
    [] code = 400 -> [success |-> FALSE, error |-> "device_id is required"]
    [] code = 503 ->
         [success |-> FALSE,
          error |-> "Database service unavailable due to missing configuration."]
    [] OTHER -> [success |-> FALSE, error |-> "Internal Server Error"]

\* the handler returns: its invocation is over and the response is sent
Respond(call, code) ==
  [call EXCEPT !.pc = "done",
               !.response = [status |-> code, body |-> PostBody(code)]]

\* lines 7-10: the status the handler returns before it awaits anything,
\* 0 when it goes on to line 12
ReceivedStatus(db) == IF db # "firestore" THEN 503 ELSE 0

\* POST is an async function: it runs to its first await and the other
\* invocations run while it waits.  Lines 5-12: a request arrives; the
\* handler answers 503 at once or waits for req.json().
PostReceived(body) ==
  LET code == ReceivedStatus(adminDb)
      call == [body |-> body, pc |-> "json", add |-> "none", set |-> "none",
               response |-> NoResponse]
  IN
  /\ adminDb # "unloaded"
  /\ calls' = Append(calls, IF code # 0 THEN Respond(call, code) ELSE call)
  /\ UNCHANGED <<adminDb, readings, devices, serverTime>>
  /\ UNCHANGED <<devVars, dashVars>>

\* lines 12-17 and 44-47: the status returned when req.json() has settled,
\* 0 when the handler goes on to line 32.  A body that is not JSON makes
\* line 12 throw into the catch.  The JSON value null parses, and the
\* destructuring of line 13 throws a TypeError into the catch.  Any other
\* value is destructured, and a missing or falsy device_id (written "")
\* is answered at line 16.
ParsedStatus(body) ==
  IF body.json = "invalid" THEN 500
  ELSE IF body.json = "null" THEN 500
  ELSE IF body.device_id = "" THEN 400
  ELSE 0

\* lines 12-35: req.json() of invocation i settles; the handler answers or
\* calls add() and waits for it.
PostParsed(i) ==
  LET code == ParsedStatus(calls[i].body)
  IN
  /\ i \in DOMAIN calls
  /\ calls[i].pc = "json"
  /\ calls' = [calls EXCEPT ![i] = IF code # 0 THEN Respond(@, code)
                                    ELSE [@ EXCEPT !.pc = "add"]]
  /\ UNCHANGED <<adminDb, readings, devices, serverTime>>
  /\ UNCHANGED <<devVars, dashVars>>

\* lines 32-41 and 44-47: the add() of invocation i settles.  Resolved
\* (addOk), the reading is in the collection and the handler calls set() and
\* waits for it; rejected, the handler answers 500 from the catch.
PostAdded(i, addOk) ==
  /\ i \in DOMAIN calls
  /\ calls[i].pc = "add"
  /\ readings' = IF addOk
                   THEN Append(readings,
                               [data |-> PostData(calls[i].body),
                                timestamp |-> serverTime + 1])
                   ELSE readings
  /\ serverTime' = IF addOk THEN serverTime + 1 ELSE serverTime
  /\ calls' = [calls EXCEPT ![i] =
                 IF addOk THEN [@ EXCEPT !.pc = "set", !.add = "ok"]
                 ELSE Respond([@ EXCEPT !.add = "failed"], 500)]
  /\ UNCHANGED <<adminDb, devices>>
  /\ UNCHANGED <<devVars, dashVars>>

\* lines 38-47: the set() of invocation i settles.  Resolved (setOk), the
\* document holds the data of this invocation and the handler answers 200;
\* rejected, it answers 500 from the catch.
PostSet(i, setOk) ==
  LET id == calls[i].body.device_id
  IN
  /\ i \in DOMAIN calls
  /\ calls[i].pc = "set"
  /\ devices' = IF setOk
                  THEN [devices EXCEPT ![id] =
                          [data |-> PostData(calls[i].body),
                           lastSeen |-> serverTime + 1, device_id |-> id]]
                  ELSE devices
  /\ serverTime' = IF setOk THEN serverTime + 1 ELSE serverTime
  /\ calls' = [calls EXCEPT ![i] =
                 IF setOk THEN Respond([@ EXCEPT !.set = "ok"], 200)
                 ELSE Respond([@ EXCEPT !.set = "failed"], 500)]
  /\ UNCHANGED <<adminDb, readings>>
  /\ UNCHANGED <<devVars, dashVars>>

Init == DevInit /\ DashInit /\ ApiInit

\* ------------------------------------------------------------------------
\* Inputs of the device runs
\* ------------------------------------------------------------------------
\* the two floats on either side of the movement threshold that both print
\* as 1.03: 1.03f = 1.02999997 (still) and 1.0300293 (moving)
AccStill == 102999997
AccMoving == 103002930
AccVals == {AccStill, AccMoving}
\* 1.125 (raw reading 18432, 0, 0), half-way between 1.12 and 1.13
AccTie == 112500000
\* probe readings: cool, between 40 and 50, at 50, just above 50, failed
Readings == {Deg(250), Deg(450), Deg(500), Deg(501), NaN}
NoFix == [valid |-> FALSE, lat |-> 0, lng |-> 0]
Fixes == {NoFix, [valid |-> TRUE, lat |-> 17385044, lng |-> 78486671]}
Links == {"down", "nobegin", "up"}
\* durations of one loop iteration in the resolver runs
ResolveSteps == {2500, 4900}
\* durations of one loop iteration in the debounce runs
LatchSteps == {50, 150}

\* The resolver runs: every sensor input, coarse time, Wi-Fi connected.
NextResolve ==
  \E dt \in ResolveSteps, mpuOk \in BOOLEAN, acc \in AccVals,
     reading \in Readings, btn \in BOOLEAN :
    /\ now + dt <= MaxMillis
    /\ Loop(dt, mpuOk, acc, reading, NoFix, btn, "up")

SpecResolve == Init /\ [][NextResolve]_vars

\* The debounce runs: fine time, every button input.
NextLatch ==
  \E dt \in LatchSteps, reading \in {Deg(250), Deg(501)}, btn \in BOOLEAN,
     fix \in Fixes, link \in Links :
    /\ now + dt <= MaxLatchMillis
    /\ Loop(dt, TRUE, AccMoving, reading, fix, btn, link)

SpecLatch == Init /\ [][NextLatch]_vars

\* ------------------------------------------------------------------------
\* Properties of the device
\* ------------------------------------------------------------------------
\* severity order NORMAL < WARNING < EMERGENCY < SOS of the resolved states
Severity(st) ==
  CASE st = "NORMAL" -> 1
    [] st = "WARNING" -> 2
    [] st = "EMERGENCY" -> 3
    [] st = "EMERGENCY (HIGH TEMP)" -> 3
    [] st = "SOS" -> 4
    [] OTHER -> 0

\* a tick has run, and its envelope was handed to the transport
TickDone == now > SETUP_DELAY_MS
SentThisTick == sent # NoEnvelope /\ sent.timestamp = now

\* the state the stillness duration alone calls for: d in milliseconds since
\* the first below-threshold sample after the last movement
StillnessState ==
  IF ~notMoving THEN "NORMAL"
  ELSE IF now - noMoveStartTime < 5000 THEN "NORMAL"
  ELSE IF now - noMoveStartTime < 15000 THEN "WARNING"
  ELSE "EMERGENCY"

\* C1: at the end of every tick the resolved state, and the status of the
\* envelope built in that tick, is SOS exactly when the latch is active,
\* whatever the temperature, the stillness and the sensor flags are.
C1_SosIffLatched ==
  /\ TickDone => ((deviceState = "SOS") <=> sosActive)
  /\ SentThisTick => ((sent.status = "SOS") <=> sosActive)

\* C1 witness: SOS is published in a tick with a critical temperature and a
\* failed accelerometer while the wearer is still.
C1_Witness ==
  /\ SentThisTick /\ sosActive /\ sent.status = "SOS"
  /\ sent.temperature > TEMP_CRITICAL /\ notMoving /\ mpuStatus = "ERROR"

\* C2: from the freshly latched ACTIVE state (counter 0) one accepted edge
\* leaves the latch ACTIVE with counter 1, and the next accepted edge makes
\* it IDLE with counter 0; without an accepted edge the latch does not move.
C2_TwoEdgesToCancel ==
  [][ /\ (sosActive /\ sosDeactivateCount = 0 /\ buttonJustPressed')
          => (sosActive' /\ sosDeactivateCount' = 1)
      /\ (sosActive /\ sosDeactivateCount = 1 /\ buttonJustPressed')
          => (~sosActive' /\ sosDeactivateCount' = 0)
      /\ ~buttonJustPressed'
          => (sosActive' = sosActive
              /\ sosDeactivateCount' = sosDeactivateCount) ]_vars

\* C2 witness: the latch is IDLE again right after an accepted edge, which
\* is the second cancel press.
C2_Witness ==
  ~sosActive /\ sosDeactivateCount = 0 /\ buttonJustPressed

\* C3: an edge is accepted only as a release edge of this tick and only 200
\* ms or more after the previously accepted one; the latch moves only on an
\* accepted edge, so a rejected edge is never replayed in a later tick.
C3_Debounce ==
  [][ /\ buttonJustPressed'
          => (/\ lastButtonState = LOW /\ lastButtonState' = HIGH
              /\ lastDebounceTime' = now'
              /\ now' - lastDebounceTime >= DEBOUNCE_MS)
      /\ ~buttonJustPressed' => lastDebounceTime' = lastDebounceTime
      /\ (sosActive' # sosActive \/ sosDeactivateCount' # sosDeactivateCount)
          => buttonJustPressed' ]_vars

\* C3 witness: a release edge inside the window was rejected while the latch
\* is active.
C3_Witness ==
  /\ risingEdge /\ ~buttonJustPressed /\ sosActive
  /\ now - lastDebounceTime < DEBOUNCE_MS

\* C4 as stated: a temperature at or above the critical threshold resolves
\* to EMERGENCY or higher when SOS is inactive.
C4_AtOrAboveCritical ==
  (SentThisTick /\ ~sosActive /\ sent.temperature >= TEMP_CRITICAL)
    => Severity(deviceState) >= 3

\* C4 amended: a temperature strictly above the critical threshold resolves
\* to EMERGENCY or higher when SOS is inactive, whatever the motion input.
C4_AboveCritical ==
  (SentThisTick /\ ~sosActive /\ sent.temperature > TEMP_CRITICAL)
    => Severity(deviceState) >= 3

\* C4 witness: just above the threshold while moving.
C4_Witness ==
  /\ SentThisTick /\ ~sosActive /\ sent.temperature = TEMP_CRITICAL + 1
  /\ ~notMoving /\ deviceState = "EMERGENCY (HIGH TEMP)"

\* C5: a valid temperature between the warning and the critical threshold
\* resolves to WARNING or higher when SOS is inactive.
C5_WarningBand ==
  (/\ SentThisTick /\ ~sosActive /\ sent.dht_status = "OK"
   /\ sent.temperature > TEMP_WARNING /\ sent.temperature < TEMP_CRITICAL)
    => Severity(deviceState) >= 2

\* C6: with SOS inactive and the temperature not above the critical
\* threshold the resolved state is the one the stillness duration calls for,
\* the duration being counted from the first still sample after movement.
C6_StillnessLadder ==
  [][ /\ (notMoving' /\ ~notMoving) => noMoveStartTime' = now'
      /\ (notMoving' /\ notMoving) => noMoveStartTime' = noMoveStartTime
      /\ (SentThisTick' /\ ~sosActive'
          /\ sent'.temperature <= TEMP_CRITICAL)
          => deviceState' = StillnessState' ]_vars

\* C6 witness: still for 15 s or more at 50.0 degrees, resolved EMERGENCY.
C6_Witness ==
  /\ SentThisTick /\ ~sosActive /\ notMoving
  /\ now - noMoveStartTime >= 15000
  /\ sent.temperature = TEMP_CRITICAL /\ deviceState = "EMERGENCY"

\* C7: a tick with a failed temperature read runs to its end (with Wi-Fi up
\* its envelope is handed over), the resolved state is what the motion rule
\* and the latch give, and the envelope carries dht_status ERROR.
C7_InvalidTemperature ==
  /\ (TickDone /\ dhtStatus = "ERROR")
       => (SentThisTick /\ sent.temperature = TEMP_INVALID)
  /\ (SentThisTick /\ sent.temperature = TEMP_INVALID)
       => /\ dhtStatus = "ERROR" /\ sent.dht_status = "ERROR"
          /\ deviceState = (IF sosActive THEN "SOS" ELSE StillnessState)
          /\ sent.status = deviceState

\* C7 witness: failed read, moving, SOS inactive: NORMAL with ERROR.
C7_Witness ==
  /\ SentThisTick /\ sent.temperature = TEMP_INVALID /\ ~sosActive
  /\ ~notMoving /\ deviceState = "NORMAL" /\ sent.dht_status = "ERROR"

\* C10: two consecutive delivery attempts are at least one publish interval
\* apart.
C10_PublishInterval ==
  [][ (sent # NoEnvelope /\ sent' # sent)
        => sent'.timestamp - sent.timestamp >= PUBLISH_INTERVAL_MS ]_vars

\* ------------------------------------------------------------------------
\* Inputs of the dashboard runs
\* ------------------------------------------------------------------------
Fix1 == [valid |-> TRUE, lat |-> 17385044, lng |-> 78486671]
Moving == [kind |-> "MOVING", sec |-> 0]
\* two positions 0.0001 degree from Fix1: as doubles, 17.385144 - 17.385044
\* does not exceed 0.0001 and 78.486671 - 78.486571 does
FixNorth == [valid |-> TRUE, lat |-> Fix1.lat + 100, lng |-> Fix1.lng]
FixWest == [valid |-> TRUE, lat |-> Fix1.lat, lng |-> Fix1.lng - 100]
\* the envelopes the live runs deliver: one per status string of the sketch
\* at Fix1, and one at each of the two positions next to it
LiveEnvelopes ==
  {JsonData(Deg(250), AccMoving, Moving, st, "OK", "OK", "OK", "OK", st = "SOS",
            Fix1.lat, Fix1.lng, 0) :
     st \in {"NORMAL", "WARNING", "EMERGENCY", "EMERGENCY (HIGH TEMP)",
             "SOS"}}
  \cup {JsonData(Deg(250), AccMoving, Moving, "NORMAL", "OK", "OK", "OK", "OK",
                 FALSE, fix.lat, fix.lng, 0) : fix \in {FixNorth, FixWest}}
\* time steps of the dashboard runs
WallSteps == {2500, 5000}

\* The live runs: envelopes arrive at any time, or do not arrive.
NextLive ==
  \/ \E d \in LiveEnvelopes : Processed < MaxEnvelopes /\ OnValue(d)
  \/ ResetTimerFires
  \/ \E dt \in WallSteps : wall + dt <= MaxWall /\ Pass(dt)

SpecLive == Init /\ [][NextLive]_vars

\* statuses generateMockData draws (line 61): the lowest and the highest
MockStatuses == {"NORMAL", "SOS"}
\* 30 + Math.random() * 25, in tenths of a degree
MockTemps == {300}
\* (Math.random() - 0.5) * 0.001 for latitude and longitude
MockMoves == {<<400, -300>>}
\* the live envelopes of the runs with the simulation
DashEnvelopes == {d \in LiveEnvelopes : d.status \in {"NORMAL", "WARNING"}}
\* time steps of the runs with the simulation
DashSteps == {3000, 10000}

\* The dashboard runs with the simulation switch.
NextDash ==
  \/ \E d \in DashEnvelopes : Processed < MaxEnvelopes /\ OnValue(d)
  \/ ResetTimerFires
  \/ \E dt \in DashSteps : wall + dt <= MaxWall /\ Pass(dt)
  \/ \E st \in MockStatuses, temp \in MockTemps, move \in MockMoves :
       StartSimulation(st, temp, "MOVING", move)
  \/ StopSimulation
  \/ \E st \in MockStatuses, temp \in MockTemps, move \in MockMoves,
        pushAlert \in BOOLEAN :
       Processed < MaxEnvelopes /\ MockTick(st, temp, "STILL", move, pushAlert)

SpecDash == Init /\ [][NextDash]_vars

\* ------------------------------------------------------------------------
\* Properties of the dashboard
\* ------------------------------------------------------------------------
\* C8: in live mode, once no envelope has arrived for the liveness timeout
\* (or none has arrived at all), the displayed state is OFFLINE.
C8_OfflineAfterTimeout ==
  (~useMock /\ (lastHeartbeat = NoHeartbeat
                \/ wall - lastHeartbeat >= LIVENESS_MS))
    => displayStatus = "OFFLINE"

\* C9: when OFFLINE is displayed, the envelope processed next makes the
\* displayed state the severity that envelope reports.
C9_OfflineClears ==
  [][ (displayStatus = "OFFLINE" /\ ~useMock
       /\ Processed' = Processed + 1)
        => /\ Severity(rtdbData'.status) >= 1
           /\ Severity(displayStatus') = Severity(rtdbData'.status)
           /\ displayStatus' \in {"NORMAL", "WARNING", "EMERGENCY", "SOS"}
    ]_vars

\* C9 witness: the first envelope after the initial OFFLINE reports SOS and
\* SOS is displayed.
C9_Witness ==
  /\ Processed = 1 /\ lastHeartbeat = wall /\ wall > 0
  /\ rtdbData.status = "SOS" /\ displayStatus = "SOS"

\* ------------------------------------------------------------------------
\* Local alerts and the transport
\* ------------------------------------------------------------------------
MaxAlertMillis == 8000

\* durations of one loop iteration in the alert runs
AlertSteps == {500, 2500}

\* The alert runs: stillness, temperature and button inputs, with Wi-Fi
\* connected or not in each iteration.
NextAlert ==
  \E dt \in AlertSteps, acc \in AccVals, reading \in {Deg(250), Deg(501)},
     btn \in BOOLEAN, link \in {"down", "up"} :
    /\ now + dt <= MaxAlertMillis
    /\ Loop(dt, TRUE, acc, reading, NoFix, btn, link)

SpecAlert == Init /\ [][NextAlert]_vars

\* the level the resolved state calls for on the buzzer pin, given the pin
\* and the toggle bookkeeping before the tick
LocalAlert(st, t, pin, bstate, timer) ==
  CASE st = "NORMAL" -> LOW
    [] st = "WARNING" -> IF t - timer >= 1000 THEN ~bstate ELSE pin
    [] OTHER -> HIGH

\* C11: in a tick that finds Wi-Fi not connected nothing is sent (the
\* document of the latest attempt stays what it was), the tick completes
\* with a resolved state, and in every tick, connected or not, the buzzer
\* level is the one the resolved state calls for.
C11_WifiDownSkips ==
  [][ now' # now
        => /\ linkState' = "down"
                => (sent' = sent /\ Severity(deviceState') >= 1)
           /\ buzzerPin' = LocalAlert(deviceState', now', buzzerPin,
                                      buzzerState, buzzerTimer) ]_vars

\* C11 witness: a tick without Wi-Fi, after an earlier tick that did send,
\* resolves WARNING and sounds the buzzer.
C11_Witness ==
  /\ linkState = "down" /\ sent # NoEnvelope /\ sent.timestamp < now
  /\ deviceState = "WARNING" /\ buzzerPin = HIGH

\* C20: at the end of every tick the buzzer is off in NORMAL and on in
\* EMERGENCY, EMERGENCY (HIGH TEMP) and SOS; in a WARNING tick the level
\* changes only if 1000 ms or more have passed since the previous toggle,
\* and the toggle time is moved only by such a tick.
C20_BuzzerFollowsState ==
  [][ now' # now
        => /\ deviceState' = "NORMAL" => buzzerPin' = LOW
           /\ deviceState' \in {"EMERGENCY", "EMERGENCY (HIGH TEMP)", "SOS"}
                => buzzerPin' = HIGH
           /\ (deviceState' = "WARNING" /\ buzzerPin' # buzzerPin)
                => (now' - buzzerTimer >= 1000 /\ buzzerTimer' = now')
           /\ buzzerTimer' # buzzerTimer
                => (deviceState' = "WARNING" /\ buzzerTimer' = now'
                    /\ now' - buzzerTimer >= 1000) ]_vars

\* C20 witness: a WARNING tick 500 ms after a toggle keeps the buzzer on.
C20_Witness ==
  /\ deviceState = "WARNING" /\ buzzerPin = HIGH
  /\ buzzerTimer > 0 /\ now - buzzerTimer = 500

\* ------------------------------------------------------------------------
\* The button while a delivery is in progress
\* ------------------------------------------------------------------------
MaxTapMillis == 3200

\* durations of one loop iteration, the PUT of line 297 included
TapSteps == {150, 300}

\* The delivery runs: the button is sampled once per iteration and may be
\* tapped while the PUT of that iteration is in progress.
NextTap ==
  \/ \E dt \in TapSteps, btn \in BOOLEAN, link \in {"down", "up"} :
       /\ now + dt <= MaxTapMillis
       /\ Loop(dt, TRUE, AccMoving, Deg(250), NoFix, btn, link)
  \/ Tap

SpecTap == Init /\ [][NextTap]_vars

\* C12: a press-and-release of the SOS button that falls entirely inside a
\* delivery attempt is detected as an edge by the next sampling of the
\* button, and changes the latch when it is outside the debounce window.
C12_TapDuringPutDetected ==
  [][ (tapInPut /\ now' # now /\ lastButtonState' = HIGH)
        => /\ risingEdge'
           /\ now' - lastDebounceTime > DEBOUNCE_MS
                => <<sosActive', sosDeactivateCount'>>
                     # <<sosActive, sosDeactivateCount>> ]_vars

\* ------------------------------------------------------------------------
\* Long runs of the live dashboard: rolling windows and the trail
\* ------------------------------------------------------------------------
MaxPushes == 64

\* time between two envelopes of the long runs
WINDOW_PERIOD_MS == 1000

\* statuses of the long runs, in turn
WindowStatus(n) ==
  CASE n % 5 = 1 -> "NORMAL"
    [] n % 5 = 2 -> "WARNING"
    [] n % 5 = 3 -> "EMERGENCY"
    [] n % 5 = 4 -> "EMERGENCY (HIGH TEMP)"
    [] OTHER -> "SOS"

\* The n-th envelope of the long runs: the temperature rises by 0.1 degree
\* per envelope, the wearer moves in every other one and walks north.
WindowEnvelope(n) ==
  JsonData(Deg(200 + n), AccMoving,
           IF n % 2 = 1 THEN Moving ELSE [kind |-> "NOT MOVING", sec |-> 6],
           WindowStatus(n), "OK", "OK", "OK", "OK", WindowStatus(n) = "SOS",
           Fix1.lat + 200 * n, Fix1.lng, WINDOW_PERIOD_MS * n)

\* The long runs: one envelope per period, delivered to the live listener.
NextWindow ==
  \/ /\ Processed < MaxPushes
     /\ wall = WINDOW_PERIOD_MS * Processed
     /\ OnValue(WindowEnvelope(Processed + 1))
  \/ ResetTimerFires
  \/ /\ wall < WINDOW_PERIOD_MS * Processed
     /\ Pass(WINDOW_PERIOD_MS)

SpecWindow == Init /\ [][NextWindow]_vars

\* C13: after N pushes the temperature window and the movement window hold
\* the last min(N, 60) samples, oldest first: exactly 60 once N > 60.
C13_WindowLast60 ==
  LET n == Processed
      k == Min(n, 60)
  IN
  /\ Len(tempHistory) = k
  /\ Len(movementHistory) = k
  /\ \A i \in 1..k :
       /\ tempHistory[i] = 200 + (n - k + i)
       /\ movementHistory[i] = (n - k + i) % 2

\* C13 witness: 62 samples were pushed and the windows hold samples 3..62.
C13_Witness ==
  /\ Processed = 62
  /\ Len(tempHistory) = 60 /\ tempHistory[1] = 203 /\ tempHistory[60] = 262
  /\ Len(movementHistory) = 60 /\ movementHistory[1] = 1

\* C19: the trail never holds more than 50 points.
C19_TrailAtMost50 == Len(trail) <= 50

\* ------------------------------------------------------------------------
\* The device and the live dashboard together
\* ------------------------------------------------------------------------
MaxJointMillis == 14500

\* duration of one loop iteration in the joint runs
JointSteps == {2500}

\* The database calls the listener with the document of the latest PUT.
Deliver ==
  /\ sent # NoEnvelope
  /\ rtdbData # sent
  /\ OnValue(sent)

\* The joint runs: the sketch publishes to the database and the listener of
\* the dashboard receives what was published; both clocks advance together.
NextJoint ==
  \/ \E dt \in JointSteps, acc \in AccVals, reading \in {Deg(250), Deg(501)},
        btn \in BOOLEAN, link \in {"down", "up"} :
       /\ now + dt <= MaxJointMillis
       /\ DeviceTick(dt, TRUE, acc, reading, Fix1, btn, link)
       /\ Elapse(dt)
       /\ UNCHANGED apiVars
  \/ Processed < MaxEnvelopes /\ Deliver
  \/ ResetTimerFires

SpecJoint == Init /\ [][NextJoint]_vars

\* the status strings the latching sketch publishes
PublishedStatuses ==
  {"NORMAL", "WARNING", "EMERGENCY", "EMERGENCY (HIGH TEMP)", "SOS"}

\* C14: the sketch publishes one of five status strings and never STARTUP;
\* for the envelope the listener processed last, the mapped status is the
\* base severity of the published string, and while OFFLINE is not shown
\* the displayed status is that base severity.
C14_MappingRecoversSeverity ==
  /\ sent # NoEnvelope => sent.status \in PublishedStatuses
  /\ rtdbData # NoEnvelope
       => /\ rtdbData.status \in PublishedStatuses
          /\ deviceData.status \in {"NORMAL", "WARNING", "EMERGENCY", "SOS"}
          /\ Severity(deviceData.status) = Severity(rtdbData.status)
          /\ displayStatus # "OFFLINE" => displayStatus = deviceData.status

\* C14 witness: the sketch published EMERGENCY (HIGH TEMP) and the
\* dashboard shows EMERGENCY.
C14_Witness ==
  /\ rtdbData # NoEnvelope /\ rtdbData = sent
  /\ rtdbData.status = "EMERGENCY (HIGH TEMP)" /\ displayStatus = "EMERGENCY"

\* ------------------------------------------------------------------------
\* The alert log of the live dashboard
\* ------------------------------------------------------------------------
\* the mapped status of the envelope processed before, NORMAL before the
\* first one
PreviousMapped == IF deviceData = NoData THEN "NORMAL" ELSE deviceData.status

\* C15: in live mode an envelope whose mapped status differs from that of
\* the envelope before it and is WARNING, EMERGENCY or SOS puts exactly one
\* entry with that status at the head of the alert log; any other envelope
\* leaves the log as it was.
C15_AlertPerTransition ==
  [][ (~useMock /\ Processed' = Processed + 1)
        => IF /\ deviceData'.status # PreviousMapped
              /\ deviceData'.status \in {"WARNING", "EMERGENCY", "SOS"}
             THEN /\ Len(alerts') = Min(Len(alerts) + 1, 20)
                  /\ alerts'[1].status = deviceData'.status
                  /\ SubSeq(alerts', 2, Len(alerts')) = SliceFirst(alerts, 19)
             ELSE alerts' = alerts ]_vars

\* C15 witness: three envelopes, two transitions (WARNING, then SOS) and
\* one repetition, and two entries in the log.
C15_Witness ==
  /\ ~useMock /\ Processed = 3 /\ Len(alerts) = 2
  /\ alerts[1].status = "SOS" /\ alerts[2].status = "WARNING"
  /\ deviceData.status = "SOS"

\* C16: whenever the displayed state becomes OFFLINE or stops being OFFLINE
\* an entry is added to the alert log.
C16_AlertOnLivenessChange ==
  [][ ((displayStatus = "OFFLINE") # (displayStatus' = "OFFLINE"))
        => (alerts' # alerts /\ Len(alerts') >= 1) ]_vars

\* ------------------------------------------------------------------------
\* Runs and properties of the ingress route
\* ------------------------------------------------------------------------
MaxRequests == 3

\* a body that req.json() rejects
Unparsable ==
  [json |-> "invalid", device_id |-> "", temperature |-> 0, movement |-> "",
   status |-> "", latitude |-> 0, longitude |-> 0]
\* the body `null`: req.json() resolves with null
NullBody ==
  [json |-> "null", device_id |-> "", temperature |-> 0, movement |-> "",
   status |-> "", latitude |-> 0, longitude |-> 0]
\* request bodies: not JSON, null, an object without device_id, and two
\* complete ones for the same device, whose device_id is a string
BodyA ==
  [json |-> "object", device_id |-> "FF_001", temperature |-> 425,
   movement |-> "MOVING", status |-> "NORMAL", latitude |-> Fix1.lat,
   longitude |-> Fix1.lng]
BodyB ==
  [json |-> "object", device_id |-> "FF_001", temperature |-> 510,
   movement |-> "STILL", status |-> "SOS", latitude |-> Fix1.lat,
   longitude |-> Fix1.lng]
Bodies ==
  {Unparsable, NullBody,
   [json |-> "object", device_id |-> "", temperature |-> 425,
    movement |-> "MOVING", status |-> "NORMAL", latitude |-> Fix1.lat,
    longitude |-> Fix1.lng],
   BodyA, BodyB}

\* The ingress runs: the module is loaded, then requests arrive and the
\* awaits of the invocations settle in any order.
NextIngress ==
  \/ \E envOk \in BOOLEAN, certOk \in BOOLEAN : LoadFirebaseAdmin(envOk, certOk)
  \/ \E body \in Bodies :
       /\ Len(calls) < MaxRequests
       /\ PostReceived(body)
  \/ \E i \in 1..MaxRequests : PostParsed(i)
  \/ \E i \in 1..MaxRequests, addOk \in BOOLEAN : PostAdded(i, addOk)
  \/ \E i \in 1..MaxRequests, setOk \in BOOLEAN : PostSet(i, setOk)

SpecIngress == Init /\ [][NextIngress]_vars

\* an invocation that has returned its response
Answered(call) == call.pc = "done"

\* C17: the response to a request is 503 when the store is not
\* initialised, whatever the body; otherwise 400 when the body has no
\* device_id; otherwise 200 with the acknowledgement when both writes
\* succeeded; a body that is not JSON or a failed write gives 500.
C17_ResponseCodes ==
  \A i \in DOMAIN calls :
    Answered(calls[i])
      => /\ calls[i].response.status =
              (CASE adminDb = "null" -> 503
                 [] adminDb # "null" /\ calls[i].body.json = "invalid" -> 500
                 [] adminDb # "null" /\ calls[i].body.json # "invalid"
                      /\ calls[i].body.device_id = "" -> 400
                 [] adminDb # "null" /\ calls[i].body.json # "invalid"
                      /\ calls[i].body.device_id # ""
                      /\ calls[i].add = "ok" /\ calls[i].set = "ok" -> 200
                 [] OTHER -> 500)
         /\ calls[i].response.status = 200 => calls[i].response.body.success

\* C18: with the store initialised, a request whose body is not JSON, is
\* null or has no device_id gets a 4xx response and has written to neither
\* collection.
C18_MalformedRejected ==
  \A i \in DOMAIN calls :
    (Answered(calls[i]) /\ adminDb = "firestore"
     /\ (calls[i].body.json # "object" \/ calls[i].body.device_id = ""))
      => /\ calls[i].response.status \in 400..499
         /\ calls[i].add = "none"
         /\ calls[i].set = "none"

\* ------------------------------------------------------------------------
\* Composition of the rules, the button and the latch
\* ------------------------------------------------------------------------
\* the severity the temperature rule alone gives to a published temperature
TemperatureSeverity(temp) == IF temp > TEMP_CRITICAL THEN 3 ELSE 1

\* C21: with SOS inactive, the severity resolved in a tick, and published
\* by it, is the maximum of the severity the stillness duration calls for
\* and the severity the temperature calls for.
C21_MaxOfRules ==
  (TickDone /\ SentThisTick /\ ~sosActive)
    => /\ Severity(deviceState)
            = Max(Severity(StillnessState),
                  TemperatureSeverity(sent.temperature))
       /\ sent.status = deviceState

\* C21 witness: 15 s or more of stillness with a normal temperature
\* resolves EMERGENCY.
C21_Witness ==
  /\ SentThisTick /\ ~sosActive /\ notMoving
  /\ now - noMoveStartTime >= 15000
  /\ sent.temperature = 250 /\ deviceState = "EMERGENCY"

\* C22: a candidate edge is raised exactly in a tick that samples the
\* button released after the tick before sampled it pressed; a tick that
\* samples it pressed raises no edge and leaves the latch alone, and the
\* latch moves only in a tick with a candidate edge.
C22_ReleaseTriggered ==
  [][ now' # now
        => /\ risingEdge' <=> (lastButtonState = LOW /\ lastButtonState' = HIGH)
           /\ lastButtonState' = LOW
                => (~risingEdge' /\ ~buttonJustPressed'
                    /\ sosActive' = sosActive
                    /\ sosDeactivateCount' = sosDeactivateCount)
           /\ (sosActive' # sosActive
               \/ sosDeactivateCount' # sosDeactivateCount) => risingEdge'
    ]_vars

\* C22 witness: the release of the first cancel press was sampled while SOS
\* is latched.
C22_Witness ==
  /\ risingEdge /\ buttonJustPressed /\ lastButtonState = HIGH
  /\ sosActive /\ sosDeactivateCount = 1

\* C25: at the end of every tick the deactivation counter is 0 or 1, and it
\* is 0 when the latch is idle.
C25_LatchCounter ==
  /\ sosDeactivateCount \in {0, 1}
  /\ ~sosActive => sosDeactivateCount = 0

\* C25 witness: the counter stands at 1 in a tick after the one that
\* counted the first cancel press.
C25_Witness ==
  sosActive /\ sosDeactivateCount = 1 /\ ~buttonJustPressed /\ ~risingEdge

\* C26: the state resolved in a tick is a function of the latch, of the
\* stillness duration and of the temperature of that tick; in a tick with
\* the latch idle, movement and a temperature of at most 50 degrees it is
\* NORMAL, whatever the state of the tick before was.
C26_NoHysteresis ==
  [][ (now' # now /\ sent'.timestamp = now')
        => /\ deviceState' =
                (IF sosActive' THEN "SOS"
                 ELSE IF sent'.temperature > TEMP_CRITICAL
                        THEN "EMERGENCY (HIGH TEMP)"
                 ELSE StillnessState')
           /\ (~sosActive' /\ ~notMoving'
               /\ sent'.temperature <= TEMP_CRITICAL)
                => deviceState' = "NORMAL" ]_vars

\* C26 witness: NORMAL is resolved in a tick with movement, after ticks
\* that resolved WARNING and toggled the buzzer.
C26_Witness ==
  /\ TickDone /\ SentThisTick /\ deviceState = "NORMAL" /\ ~notMoving
  /\ ~sosActive /\ buzzerTimer > 0

\* ------------------------------------------------------------------------
\* Analytics per envelope
\* ------------------------------------------------------------------------
\* position in the stream of the envelope the listener processed last
EnvelopesSeen ==
  IF rtdbData = NoEnvelope THEN 0
  ELSE rtdbData.timestamp \div WINDOW_PERIOD_MS

\* C23: after the n-th envelope both windows have length min(n, 60) and
\* the four tallies sum to n; processing an envelope appends its
\* temperature and its movement flag at the end of the windows and adds
\* one to exactly one tally.
C23_AnalyticsPerEnvelope ==
  /\ [](/\ Len(tempHistory) = Min(EnvelopesSeen, 60)
        /\ Len(movementHistory) = Min(EnvelopesSeen, 60)
        /\ Processed = EnvelopesSeen)
  /\ [][ rtdbData' # rtdbData
           => /\ tempHistory'[Len(tempHistory')] = rtdbData'.temperature
              /\ movementHistory'[Len(movementHistory')]
                   = (IF rtdbData'.movement.kind = "MOVING" THEN 1 ELSE 0)
              /\ \E k \in DOMAIN statusCounts :
                   /\ statusCounts'[k] = statusCounts[k] + 1
                   /\ \A j \in DOMAIN statusCounts \ {k} :
                        statusCounts'[j] = statusCounts[j] ]_vars

\* C23 witness: 61 envelopes processed, the windows are full and the
\* tallies sum to 61, the SOS tally included.
C23_Witness ==
  /\ EnvelopesSeen = 61 /\ Processed = 61
  /\ Len(tempHistory) = 60 /\ Len(movementHistory) = 60
  /\ statusCounts["SOS"] = 12 /\ statusCounts["Normal"] = 13

\* ------------------------------------------------------------------------
\* The alert log in long live and simulated runs
\* ------------------------------------------------------------------------
MaxMockTicks == 17

\* entries the live listener keeps: 19 retained and the new one (line 260)
ALERT_LOG_MAX == 20

\* The long runs with the simulation: the live stream of the long runs,
\* and a simulation, started at any point of it, that pushes an alert in
\* every tick (`Math.random() > 0.8` holds each time).
NextAlertLog ==
  \/ /\ Processed < MaxPushes
     /\ wall = WINDOW_PERIOD_MS * Processed
     /\ OnValue(WindowEnvelope(Processed + 1))
  \/ ResetTimerFires
  \/ /\ ~useMock
     /\ wall < WINDOW_PERIOD_MS * Processed
     /\ Pass(WINDOW_PERIOD_MS)
  \/ StartSimulation("NORMAL", 300, "MOVING", <<400, -300>>)
  \/ /\ Processed < MaxMockTicks
     /\ MockTick("WARNING", 300, "MOVING", <<400, -300>>, TRUE)
  \/ /\ useMock
     /\ Processed < MaxMockTicks
     /\ Pass(WINDOW_PERIOD_MS)

SpecAlertLog == Init /\ [][NextAlertLog]_vars

\* C24: in live mode and in simulation mode alike the alert log never
\* holds more entries than the fixed count.
C24_AlertLogBound == Len(alerts) <= ALERT_LOG_MAX

\* ------------------------------------------------------------------------
\* Voice announcements
\* ------------------------------------------------------------------------
\* C27: when the status announced last is announced again, 10 s or more
\* have passed since that announcement.
C27_AnnounceOncePer10s ==
  [][ (spoken' # spoken /\ spoken.status # ""
       /\ spoken'.status = spoken.status)
        => spoken'.at - spoken.at >= ANNOUNCE_RESET_MS ]_vars

\* ------------------------------------------------------------------------
\* Leaving the simulation
\* ------------------------------------------------------------------------
\* C28: in live mode, whenever a state other than OFFLINE is displayed, the
\* device data behind it is that of the latest envelope received from the
\* live store.
C28_NoSimulatedLiveState ==
  (~useMock /\ displayStatus # "OFFLINE")
    => /\ rtdbData # NoEnvelope
       /\ deviceData = LiveData(rtdbData)
       /\ displayStatus = MappedStatus(rtdbData.status)

\* ------------------------------------------------------------------------
\* Invalid temperature readings on the dashboard
\* ------------------------------------------------------------------------
\* The joint runs with a failing temperature sensor: the wearer moves, the
\* button is never pressed, each read of the DHT succeeds or fails.
NextSentinel ==
  \/ \E dt \in JointSteps, acc \in {AccMoving, AccTie},
        reading \in {Deg(250), Deg(450), NaN}, link \in {"down", "up"} :
       /\ now + dt <= MaxJointMillis
       /\ DeviceTick(dt, TRUE, acc, reading, Fix1, HIGH, link)
       /\ Elapse(dt)
       /\ UNCHANGED apiVars
  \/ Processed < MaxEnvelopes /\ Deliver

SpecSentinel == Init /\ [][NextSentinel]_vars

\* C29: the temperature window, from which minimum, average and maximum
\* are computed, never holds the invalid-reading sentinel.
C29_SentinelNotInWindow ==
  \A i \in 1..Len(tempHistory) : tempHistory[i] # TEMP_INVALID

\* ------------------------------------------------------------------------
\* The two writes of the ingress route
\* ------------------------------------------------------------------------
\* the reading and the document that invocation i has written
ReadingOf(i) ==
  \E k \in DOMAIN readings :
    calls[i].add = "ok" /\ readings[k].data = PostData(calls[i].body)
DocumentOf(i) == calls[i].set = "ok"

\* C30: a request answered with 200 has appended a reading and updated the
\* device document; a request answered with any other status has changed
\* neither collection.
C30_AllOrNothing ==
  \A i \in DOMAIN calls :
    Answered(calls[i])
      => /\ calls[i].response.status = 200
              => (ReadingOf(i) /\ DocumentOf(i))
         /\ calls[i].response.status # 200
              => (~ReadingOf(i) /\ ~DocumentOf(i))

====
